---- MODULE Spec2Model ----
(***************************************************************************)
(* Model of the Jenkins client (package jenkins, jenkins.go).              *)
(*                                                                         *)
(* The remote server is the environment: every HTTP request is answered    *)
(* by a response drawn from the set of responses the server can give for   *)
(* the requested URL.  One call of an exported operation runs at a time    *)
(* (the package has no internal concurrency); every remote request of the  *)
(* call is one step of the model.                                          *)
(*                                                                         *)
(* The second copy of the package in the repository has the same DoBuild,  *)
(* sanitizeId, get, getRemote and post; it differs in GetInfo and          *)
(* GetBuildInfo, whose type assertions are unchecked.                      *)
(*                                                                         *)
(* Build numbers in the server's documents are naturals (0 when the job    *)
(* has no such build).  A 200 response may carry a body that is not JSON,  *)
(* or the JSON text null, which leaves the decoded map nil: GetInfo and    *)
(* GetBuildInfo then return (nil, nil) and their callers dereference nil.  *)
(***************************************************************************)
EXTENDS Integers, Sequences, FiniteSets, TLC

\* ------------------------------------------------------------------ bounds
\* largest build number the server reports
MaxBuild == 2
\* largest number of polls of the wait loop that is explored
MaxPolls == 4

\* ------------------------------------------------------- JSON documents
\* A decoded JSON value (interface{}): a tag and a payload.  A key that is
\* absent from a Go map reads as nil, the same as a JSON null.
JNull == [t |-> "null", v |-> 0]
JStr(s) == [t |-> "str", v |-> s]
JNum(n) == [t |-> "num", v |-> n]
JBool(b) == [t |-> "bool", v |-> b]
JArr(s) == [t |-> "arr", v |-> s]
JObj(f) == [t |-> "obj", v |-> f]
\* a body that encoding/json cannot decode into a map
JMalformed == [t |-> "malformed", v |-> 0]

\* m[k] on a map[string]interface{} (m is the payload of an object; a nil
\* map is the empty function)
Index(m, k) == IF k \in DOMAIN m THEN m[k] ELSE JNull

\* the comma-ok type assertions  x, _ := v.(T)
asString(v) == IF v.t = "str" THEN v.v ELSE ""
asFloat(v) == IF v.t = "num" THEN v.v ELSE 0
asBool(v) == IF v.t = "bool" THEN v.v ELSE FALSE
asArray(v) == IF v.t = "arr" THEN v.v ELSE <<>>
asMap(v) == IF v.t = "obj" THEN v.v ELSE <<>>

\* ------------------------------------------------------------- pointers
\* A Go pointer result is the empty sequence (nil) or a one-element sequence.
Nil == <<>>
Ptr(x) == <<x>>

\* --------------------------------------------------------------- errors
NoErr == "nil"
ErrNet == "transport: request failed"
ErrStatus == "Bad status"
ErrJSON == "json: cannot decode"
ErrParse == "url: invalid query"
ErrNoBuild == "no build available"
ErrNoStable == "no stable build available"
ErrStable == "Couldn't fetch last stable build info"
ErrWeird == "weird state. could not wait for job to complete."
ErrFailed == "the build you requested failed"
ErrMkdir == "mkdir: failed"
ErrCreate == "create: failed"

\* ----------------------------------------------------------------- URLs
\* "http://" + path.Join(JENKINS_SERVER, "job", nameAndID, "api", "json"):
\* id = 0 stands for the job document /job/<name>/api/json
ApiURL(id) == [m |-> "GET", kind |-> "api", id |-> id]
TriggerURL == [m |-> "POST", kind |-> "buildWithParameters", id |-> 0]
\* "http://" + path.Join(JENKINS_SERVER, "job", nameAndID, "artifact", inpath)
ArtifactURL(id, inpath) == [m |-> "GET", kind |-> "artifact", id |-> id, path |-> inpath]

\* ------------------------------------------------ the server's documents
JobRef(n) == IF n = 0 THEN JNull
             ELSE JObj([number |-> JNum(n), url |-> JStr("build-url")])

JobDoc(q, lb, lsb) ==
  JObj([name |-> JStr("demo"), description |-> JStr("a job"),
        url |-> JStr("job-url"), buildable |-> JBool(TRUE),
        inQueue |-> JBool(q), lastBuild |-> JobRef(lb),
        lastStableBuild |-> JobRef(lsb)])

\* a stable build is a build: lastStableBuild <= lastBuild
JobDocs == UNION { { JobDoc(q, lb, lsb) : q \in BOOLEAN, lsb \in 0..lb } : lb \in 0..MaxBuild }

ArtifactDoc == JObj([displayPath |-> JStr("out.bin"), relativePath |-> JStr("target/out.bin")])
ArtifactDoc2 == JObj([displayPath |-> JStr("lib/a.jar"), relativePath |-> JStr("target/lib/a.jar")])

BuildDoc(id, b, r, arts) ==
  JObj([fullDisplayName |-> JStr("demo build"), number |-> JNum(id),
        artifacts |-> JArr(arts), building |-> JBool(b),
        duration |-> JNum(7), estimatedDuration |-> JNum(9),
        result |-> r, timestamp |-> JNum(1), url |-> JStr("build-url")])

\* a running build has no result and no artifacts yet; a finished build has
\* a result, except for the inconsistent document {building: false, result: null};
\* the last document lists an artifact as a string instead of an object
BuildDocs(id) ==
  { BuildDoc(id, TRUE, JNull, <<>>), BuildDoc(id, FALSE, JNull, <<>>),
    BuildDoc(id, FALSE, JStr("FAILURE"), <<>>),
    BuildDoc(id, FALSE, JStr("SUCCESS"), <<>>),
    BuildDoc(id, FALSE, JStr("SUCCESS"), <<ArtifactDoc>>),
    BuildDoc(id, FALSE, JStr("SUCCESS"), <<ArtifactDoc, ArtifactDoc2>>),
    BuildDoc(id, FALSE, JStr("SUCCESS"), <<JStr("out.bin")>>) }

\* ----------------------------------------------------- server responses
NetFail == [k |-> "neterr", code |-> 0, body |-> JNull]
Resp(code, body) == [k |-> "resp", code |-> code, body |-> body]
NoResp == [k |-> "none", code |-> 0, body |-> JNull]

Bodies(url) == IF url.id = 0 THEN JobDocs ELSE BuildDocs(url.id)

\* what the server may answer to a GET of an api URL
Responses(url) ==
  {NetFail, Resp(404, JNull), Resp(200, JMalformed), Resp(200, JNull)}
  \cup { Resp(200, d) : d \in Bodies(url) }

\* what the server may answer to a GET of an artifact URL
ArtifactResponses == {NetFail, Resp(404, JNull), Resp(200, JStr("bytes"))}

\* what the server may answer to the trigger POST
PostResponses == {NetFail, Resp(200, JNull), Resp(500, JNull)}

\* ------------------------------------------------------------- the code
\* getRemote: the body of a 200 response, an error otherwise
getRemote(r) ==
  IF r.k = "neterr" THEN [body |-> JNull, err |-> ErrNet]
  ELSE IF r.code # 200 THEN [body |-> JNull, err |-> ErrStatus]
  ELSE [body |-> r.body, err |-> NoErr]

\* the URL get(name, id) requests
getURL(id) == IF id > 0 THEN ApiURL(id) ELSE ApiURL(0)

\* get: decodes the body into a map; the JSON text null leaves the map nil
get(r) ==
  LET rem == getRemote(r) IN
    IF rem.err # NoErr THEN [json |-> JNull, err |-> rem.err]
    ELSE IF rem.body.t \notin {"obj", "null"} THEN [json |-> JNull, err |-> ErrJSON]
    ELSE [json |-> rem.body, err |-> NoErr]

\* GetInfo, given the response to its request
GetInfo(r) ==
  LET g == get(r)
      json == asMap(g.json)
      lastBuild == Index(json, "lastBuild")
      lastStableBuild == Index(json, "lastStableBuild")
  IN
    IF g.err # NoErr \/ g.json = JNull THEN [val |-> Nil, err |-> g.err]
    ELSE [val |-> Ptr(
            [Name |-> asString(Index(json, "name")),
             Description |-> asString(Index(json, "description")),
             Url |-> asString(Index(json, "url")),
             Buildable |-> asBool(Index(json, "buildable")),
             InQueue |-> asBool(Index(json, "inQueue")),
             LastBuild |-> IF lastBuild # JNull
                           THEN asFloat(Index(asMap(lastBuild), "number")) ELSE 0,
             LastBuildUrl |-> IF lastBuild # JNull
                              THEN asString(Index(asMap(lastBuild), "url")) ELSE "",
             LastStableBuild |-> IF lastStableBuild # JNull
                                 THEN asFloat(Index(asMap(lastStableBuild), "number")) ELSE 0,
             LastStableBuildUrl |-> IF lastStableBuild # JNull
                                    THEN asString(Index(asMap(lastStableBuild), "url")) ELSE ""]),
          err |-> NoErr]

\* fault: the job is fetched for every id
sanitizeFetches_Always(id) == TRUE

\* does sanitizeID call GetInfo for this id
sanitizeFetches(id) == id = -1 \/ id = -2

\* fault: the tests for "no build" are missing
sanitizeID_NoZeroCheck(id, gi) ==
  IF id = -1 \/ id = -2 THEN
    IF gi.err # NoErr THEN [id |-> id, err |-> gi.err, panic |-> FALSE]
    ELSE IF gi.val = Nil THEN [id |-> id, err |-> NoErr, panic |-> TRUE]
    ELSE [id |-> IF id = -1 THEN gi.val[1].LastBuild ELSE gi.val[1].LastStableBuild,
          err |-> NoErr, panic |-> FALSE]
  ELSE [id |-> id, err |-> NoErr, panic |-> FALSE]

\* sanitizeID, given the result of the GetInfo call it makes (if any);
\* a nil info with a nil error is dereferenced: the call panics
sanitizeID(id, gi) ==
  IF id = -1 THEN
    IF gi.err # NoErr THEN [id |-> id, err |-> gi.err, panic |-> FALSE]
    ELSE IF gi.val = Nil THEN [id |-> id, err |-> NoErr, panic |-> TRUE]
    ELSE IF gi.val[1].LastBuild = 0 THEN [id |-> id, err |-> ErrNoBuild, panic |-> FALSE]
    ELSE [id |-> gi.val[1].LastBuild, err |-> NoErr, panic |-> FALSE]
  ELSE IF id = -2 THEN
    IF gi.err # NoErr THEN [id |-> id, err |-> gi.err, panic |-> FALSE]
    ELSE IF gi.val = Nil THEN [id |-> id, err |-> NoErr, panic |-> TRUE]
    ELSE IF gi.val[1].LastStableBuild = 0 THEN [id |-> id, err |-> ErrNoStable, panic |-> FALSE]
    ELSE [id |-> gi.val[1].LastStableBuild, err |-> NoErr, panic |-> FALSE]
  ELSE [id |-> id, err |-> NoErr, panic |-> FALSE]

\* the loop over the artifacts array in GetBuildInfo: the map built from the
\* elements, and whether an element that is not an object made the
\* unchecked assertion artifact.(map[string]interface{}) panic
RECURSIVE decodeArtifacts(_, _)
decodeArtifacts(arts, acc) ==
  IF arts = <<>> THEN [map |-> acc, panic |-> FALSE]
  ELSE IF Head(arts).t # "obj" THEN [map |-> acc, panic |-> TRUE]
  ELSE LET displayPath == asString(Index(Head(arts).v, "displayPath"))
           relativePath == asString(Index(Head(arts).v, "relativePath"))
       IN IF displayPath # "" /\ relativePath # ""
          THEN decodeArtifacts(Tail(arts),
                 [p \in DOMAIN acc \cup {displayPath} |->
                    IF p = displayPath THEN relativePath ELSE acc[p]])
          ELSE decodeArtifacts(Tail(arts), acc)

\* fault: a null result is not replaced by the sentinel
resultOf_NoSentinel(json) == asString(Index(json, "result"))

\* info.Result: the result string of the document, "BUILDING" when the
\* document has none
resultOf(json) ==
  IF Index(json, "result") # JNull
  THEN asString(Index(json, "result")) ELSE "BUILDING"

\* the part of GetBuildInfo after sanitizeID, given the response to get
decodeBuild(r) ==
  LET g == get(r)
      json == asMap(g.json)
      arts == decodeArtifacts(asArray(Index(json, "artifacts")), <<>>)
  IN
    IF g.err # NoErr \/ g.json = JNull THEN [val |-> Nil, err |-> g.err, panic |-> FALSE]
    ELSE IF arts.panic THEN [val |-> Nil, err |-> NoErr, panic |-> TRUE]
    ELSE [val |-> Ptr(
            [Name |-> asString(Index(json, "fullDisplayName")),
             ID |-> asFloat(Index(json, "number")),
             Artifacts |-> arts.map,
             Building |-> asBool(Index(json, "building")),
             Duration |-> asFloat(Index(json, "duration")),
             EstimatedDuration |-> asFloat(Index(json, "estimatedDuration")),
             Result |-> resultOf(json),
             Timestamp |-> asFloat(Index(json, "timestamp")),
             Url |-> asString(Index(json, "url"))]),
          err |-> NoErr, panic |-> FALSE]

\* the requests GetBuildInfo(name, id) makes, given the response r1 to the
\* request of sanitizeID
buildInfoRequests(id, r1) ==
  LET s == sanitizeID(id, GetInfo(r1)) IN
    (IF sanitizeFetches(id) THEN <<ApiURL(0)>> ELSE <<>>)
    \o (IF s.err = NoErr /\ ~s.panic THEN <<getURL(s.id)>> ELSE <<>>)

\* GetBuildInfo(name, id), given the responses r1 (to sanitizeID's request)
\* and r2 (to get's request)
GetBuildInfo(id, r1, r2) ==
  LET s == sanitizeID(id, GetInfo(r1)) IN
    IF s.panic THEN [val |-> Nil, err |-> NoErr, panic |-> TRUE]
    ELSE IF s.err # NoErr THEN [val |-> Nil, err |-> s.err, panic |-> FALSE]
    ELSE decodeBuild(r2)

\* fault: the form is posted although the parameters did not parse
post_SendsUnparsed(paramsOK, r) ==
  IF r.k = "neterr" THEN [err |-> ErrNet, sent |-> TRUE]
  ELSE [err |-> IF paramsOK THEN NoErr ELSE ErrParse, sent |-> TRUE]

\* url.ParseQuery and http.PostForm in post: the status of the response is
\* not looked at
post(paramsOK, r) ==
  IF ~paramsOK THEN [err |-> ErrParse, sent |-> FALSE]
  ELSE IF r.k = "neterr" THEN [err |-> ErrNet, sent |-> TRUE]
  ELSE [err |-> NoErr, sent |-> TRUE]

\* fault: the last build is taken for the new one
predictedBuild_NoIncrement(i) == i.LastBuild

\* newBuild := info.LastBuild + 1
predictedBuild(i) == i.LastBuild + 1

\* fault: the error of the stable-build fetch is ignored
stableBranch_IgnoresError(res) ==
  IF res.panic THEN "panic"
  ELSE IF res.err = NoErr /\ res.val = Nil THEN "panic"
  ELSE "poll"

\* what DoBuild does with the result of the fetch of the last stable build:
\* an error is returned as ErrStable; binfo.Duration dereferences binfo
stableBranch(res) ==
  IF res.panic THEN "panic"
  ELSE IF res.err # NoErr THEN "return"
  ELSE IF res.val = Nil THEN "panic"
  ELSE "poll"

\* fault: a build that is still building is returned
waitBranch_ReturnsBuilding(res) ==
  IF res.panic THEN "panic"
  ELSE IF res.err = NoErr /\ res.val = Nil THEN "panic"
  ELSE IF res.err = NoErr THEN "return"
  ELSE "jobinfo"

\* fault: the wait gives up when the build cannot be fetched
waitBranch_ReturnsOnError(res) ==
  IF res.panic THEN "panic"
  ELSE IF res.err = NoErr /\ res.val = Nil THEN "panic"
  ELSE IF res.err # NoErr \/ ~res.val[1].Building THEN "return"
  ELSE "building"

\* the branch the wait loop takes on the result of GetBuildInfo(name,
\* newBuild); the first test dereferences binfo when err is nil
waitBranch(res) ==
  IF res.panic THEN "panic"
  ELSE IF res.err = NoErr /\ res.val = Nil THEN "panic"
  ELSE IF res.err = NoErr /\ ~res.val[1].Building THEN "return"
  ELSE IF res.err # NoErr THEN "jobinfo"
  ELSE "building"

\* the condition of the wait loop's consistency test
inconsistent(i, nb) == ~i.InQueue \/ i.LastBuild + 1 # nb

\* fault: the first inconsistent observation aborts the wait
weirdCheck_AbortsFirst(i, nb, w) ==
  [abort |-> inconsistent(i, nb), weird |-> TRUE]

\* the consistency test of the wait loop: does it return the "weird state"
\* error, and the value of weird after it (the assignment weird = true
\* follows the return statement and is never executed)
weirdCheck(i, nb, w) ==
  [abort |-> inconsistent(i, nb) /\ w, weird |-> w]

\* path.Dir on the output paths of the server's documents
Dir(p) == IF p = "lib/a.jar" THEN "lib" ELSE "."

\* info.Artifacts[artifact]: the empty string for a key that is not in the map
lookup(m, k) == IF k \in DOMAIN m THEN m[k] ELSE ""

\* fault: only a FAILURE result is refused
artifactInfoBranch_RefusesFailureOnly(res) ==
  IF res.panic THEN "panic"
  ELSE IF res.err # NoErr THEN "error"
  ELSE IF res.val = Nil THEN "panic"
  ELSE IF res.val[1].Result = "FAILURE" THEN "failed"
  ELSE "ok"

\* what GetArtifacts and GetArtifactReader do with the result of
\* GetBuildInfo: the error is returned, info.Result dereferences info, a
\* result other than SUCCESS is refused
artifactInfoBranch(res) ==
  IF res.panic THEN "panic"
  ELSE IF res.err # NoErr THEN "error"
  ELSE IF res.val = Nil THEN "panic"
  ELSE IF res.val[1].Result # "SUCCESS" THEN "failed"
  ELSE "ok"

\* one pass of the loop of GetArtifacts, given the response to the request
\* for the bytes and whether os.MkdirAll and os.Create succeed: the error
\* that ends the pass, whether the directory and the file were created
fetchArtifact(r, mkdirOK, createOK) ==
  IF getRemote(r).err # NoErr
    THEN [err |-> getRemote(r).err, mkdir |-> FALSE, create |-> FALSE]
  ELSE IF ~mkdirOK THEN [err |-> ErrMkdir, mkdir |-> FALSE, create |-> FALSE]
  ELSE IF ~createOK THEN [err |-> ErrCreate, mkdir |-> TRUE, create |-> FALSE]
  ELSE [err |-> NoErr, mkdir |-> TRUE, create |-> TRUE]

\* fault: the loop goes on to the next artifact after a failure
loopBranch_Continues(err) == "next"

\* the loop of GetArtifacts returns on the first error
loopBranch(err) == IF err # NoErr THEN "return" ELSE "next"

\* the artifacts slice after a pass of the loop that wrote outpath: nothing
\* is appended to it
appendArtifact(list, outpath) == list

\* the build number in the artifact URL of GetArtifactReader: the id
\* argument, not the id sanitizeID resolved it to inside GetBuildInfo
readerBuildID(id, resolved) == id

\* ---------------------------------------------------------------- state
VARIABLES
  op,        \* the exported operation that was called
  arg,       \* its arguments
  pc,        \* the position of the call
  info,      \* DoBuild: info (the JobInfo fetched first)
  newBuild,  \* DoBuild: newBuild
  binfo,     \* DoBuild: binfo
  inQueue,   \* DoBuild: inQueue
  building,  \* DoBuild: building
  weird,     \* DoBuild: weird
  sid,       \* GetBuildInfo: the result of sanitizeID
  sinfo,     \* sanitizeID: the result of its GetInfo call
  ret,       \* the values returned to the caller
  reqs,      \* the requests sent to the server, in order
  logs,      \* the lines printed with log.Print, in order
  polls,     \* history: polls of the predicted build made so far
  consec,    \* history: length of the current run of inconsistent polls
  obs,       \* history: what each poll observed
  lastFetch, \* history: the last GetBuildInfo call of DoBuild, the body of
             \* the response to its get and its result
  postResp,  \* history: the response to the trigger POST
  ainfo,     \* GetArtifacts, GetArtifactReader: info
  artifacts, \* GetArtifacts: artifacts
  todo,      \* GetArtifacts: the keys of info.Artifacts the loop has not visited
  dirs,      \* the directories created under output
  files,     \* the files created under output
  afail      \* history: a step of the artifact loop has failed

vars == <<op, arg, pc, info, newBuild, binfo, inQueue, building, weird, sid,
          sinfo, ret, reqs, logs, polls, consec, obs, lastFetch, postResp,
          ainfo, artifacts, todo, dirs, files, afail>>

artvars == <<ainfo, artifacts, todo, dirs, files, afail>>

locals == <<info, newBuild, binfo, inQueue, building, weird>>
history == <<polls, consec, obs, lastFetch, postResp>>

NoResult == [val |-> Nil, err |-> NoErr, panic |-> FALSE]
NoFetch == [id |-> 0, body |-> JNull, res |-> NoResult]
NoSid == [id |-> 0, err |-> NoErr, panic |-> FALSE]
NoArg == [wait |-> FALSE, paramsOK |-> TRUE, id |-> 0, key |-> ""]

Init ==
  /\ op = "none" /\ arg = NoArg /\ pc = "idle"
  /\ info = Nil /\ newBuild = 0 /\ binfo = Nil
  /\ inQueue = FALSE /\ building = FALSE /\ weird = FALSE
  /\ sid = NoSid /\ sinfo = [val |-> Nil, err |-> NoErr]
  /\ ret = [val |-> Nil, err |-> NoErr]
  /\ reqs = <<>> /\ logs = <<>>
  /\ polls = 0 /\ consec = 0 /\ obs = <<>> /\ lastFetch = NoFetch
  /\ postResp = NoResp
  /\ ainfo = Nil /\ artifacts = <<>> /\ todo = {}
  /\ dirs = {} /\ files = {} /\ afail = FALSE

\* return val, err
Return(val, err) == pc' = "done" /\ ret' = [val |-> val, err |-> err]
\* a nil pointer dereference ends the call without a return
Panic == pc' = "panic" /\ UNCHANGED ret

\* the responses to the requests of one GetBuildInfo(name, id) call
SanitizeResponses(id) ==
  IF sanitizeFetches(id) THEN Responses(ApiURL(0)) ELSE {NoResp}
GetResponses(id, r1) ==
  LET s == sanitizeID(id, GetInfo(r1)) IN
    IF s.err = NoErr /\ ~s.panic THEN Responses(getURL(s.id)) ELSE {NoResp}

\* ---------------------------------------------------------------- DoBuild
\* DoBuild(name, params, wait) is called
DoBuild_Call ==
  /\ pc = "idle"
  /\ \E w \in BOOLEAN, ok \in BOOLEAN :
        arg' = [wait |-> w, paramsOK |-> ok, id |-> 0, key |-> ""]
  /\ op' = "DoBuild"
  /\ pc' = "GetInfo"
  /\ logs' = Append(logs, "Building")
  /\ UNCHANGED <<artvars, locals, sid, sinfo, ret, reqs, history>>

\* info, err := GetInfo(name); newBuild := info.LastBuild + 1; the branch
\* on info.InQueue
DoBuild_GetInfo ==
  /\ op = "DoBuild" /\ pc = "GetInfo"
  /\ \E r \in Responses(ApiURL(0)) :
       LET gi == GetInfo(r) IN
         /\ reqs' = Append(reqs, ApiURL(0))
         /\ IF gi.err # NoErr
            THEN Return(Nil, gi.err) /\ UNCHANGED <<info, newBuild, logs>>
            ELSE IF gi.val = Nil
            THEN Panic /\ UNCHANGED <<info, newBuild, logs>>
            ELSE /\ info' = gi.val
                 /\ newBuild' = predictedBuild(gi.val[1])
                 /\ IF gi.val[1].InQueue
                    THEN /\ logs' = Append(logs, "Job already in queue.")
                         /\ IF ~arg.wait THEN Return(Nil, NoErr)
                                         ELSE pc' = "Stable" /\ UNCHANGED ret
                    ELSE pc' = "Post" /\ UNCHANGED <<ret, logs>>
  /\ UNCHANGED <<artvars, op, arg, binfo, inQueue, building, weird, sid, sinfo, history>>

\* err := post(name, "buildWithParameters", params); the branch on wait
DoBuild_Post ==
  /\ op = "DoBuild" /\ pc = "Post"
  /\ \E r \in PostResponses :
       LET p == post(arg.paramsOK, r) IN
         /\ reqs' = IF p.sent THEN Append(reqs, TriggerURL) ELSE reqs
         /\ postResp' = IF p.sent THEN r ELSE postResp
         /\ IF p.err # NoErr
            THEN Return(Nil, p.err) /\ UNCHANGED logs
            ELSE /\ logs' = Append(logs, "Build scheduled.")
                 /\ IF ~arg.wait THEN Return(Nil, NoErr)
                                 ELSE pc' = "Stable" /\ UNCHANGED ret
  /\ UNCHANGED <<artvars, op, arg, locals, sid, sinfo, polls, consec, obs, lastFetch>>

\* binfo, err := GetBuildInfo(name, info.LastStableBuild) and the log line
\* that reads binfo.Duration
DoBuild_Stable ==
  /\ op = "DoBuild" /\ pc = "Stable"
  /\ LET id == info[1].LastStableBuild IN
     \E r1 \in SanitizeResponses(id) : \E r2 \in GetResponses(id, r1) :
       LET res == GetBuildInfo(id, r1, r2) IN
         /\ reqs' = reqs \o buildInfoRequests(id, r1)
         /\ lastFetch' = [id |-> id, body |-> r2.body, res |-> res]
         /\ binfo' = res.val
         /\ CASE stableBranch(res) = "panic" -> Panic /\ UNCHANGED logs
              [] stableBranch(res) = "return" ->
                   Return(Nil, ErrStable) /\ UNCHANGED logs
              [] stableBranch(res) = "poll" ->
                   /\ logs' = Append(logs, "Waiting for job to complete.")
                   /\ pc' = "Poll" /\ UNCHANGED ret
  /\ UNCHANGED <<artvars, op, arg, info, newBuild, inQueue, building, weird, sid, sinfo,
                 polls, consec, obs, postResp>>

\* one pass of the wait loop up to the branch on the result of
\* binfo, err = GetBuildInfo(name, newBuild)
DoBuild_Poll ==
  /\ op = "DoBuild" /\ pc = "Poll"
  /\ \E r1 \in SanitizeResponses(newBuild) : \E r2 \in GetResponses(newBuild, r1) :
       LET res == GetBuildInfo(newBuild, r1, r2) IN
         /\ reqs' = reqs \o buildInfoRequests(newBuild, r1)
         /\ lastFetch' = [id |-> newBuild, body |-> r2.body, res |-> res]
         /\ polls' = polls + 1
         /\ binfo' = res.val
         /\ CASE waitBranch(res) = "panic" ->
                   Panic /\ UNCHANGED <<building, logs, consec, obs>>
              [] waitBranch(res) = "return" ->
                   /\ Return(res.val, NoErr)
                   /\ consec' = 0 /\ obs' = Append(obs, "C")
                   /\ UNCHANGED <<building, logs>>
              [] waitBranch(res) = "jobinfo" ->
                   /\ pc' = "PollInfo"
                   /\ UNCHANGED <<ret, building, logs, consec, obs>>
              [] waitBranch(res) = "building" ->
                   /\ building' = TRUE
                   /\ logs' = IF ~building THEN Append(logs, "Job is building.") ELSE logs
                   /\ consec' = 0 /\ obs' = Append(obs, "B")
                   /\ pc' = "Sleep" /\ UNCHANGED ret
  /\ UNCHANGED <<artvars, op, arg, info, newBuild, inQueue, weird, sid, sinfo, postResp>>

\* the branch of the wait loop taken when the build could not be fetched:
\* info, err := GetInfo(name), the consistency test and the inQueue test
DoBuild_PollInfo ==
  /\ op = "DoBuild" /\ pc = "PollInfo"
  /\ \E r \in Responses(ApiURL(0)) :
       LET gi == GetInfo(r) IN
         /\ reqs' = Append(reqs, ApiURL(0))
         /\ IF gi.err # NoErr THEN
              /\ Return(Nil, gi.err)
              /\ obs' = Append(obs, "E")
              /\ UNCHANGED <<weird, inQueue, logs, consec>>
            ELSE IF gi.val = Nil THEN
              Panic /\ UNCHANGED <<weird, inQueue, logs, consec, obs>>
            ELSE
              LET i == gi.val[1]
                  w == weirdCheck(i, newBuild, weird) IN
                /\ consec' = IF inconsistent(i, newBuild) THEN consec + 1 ELSE 0
                /\ obs' = Append(obs, IF ~i.InQueue THEN "N"
                                      ELSE IF inconsistent(i, newBuild) THEN "M" ELSE "Q")
                /\ weird' = w.weird
                /\ IF w.abort THEN
                     Return(Nil, ErrWeird) /\ UNCHANGED <<inQueue, logs>>
                   ELSE
                     /\ inQueue' = (inQueue \/ i.InQueue)
                     /\ logs' = IF i.InQueue /\ ~inQueue
                                THEN Append(logs, "Job is in queue.") ELSE logs
                     /\ pc' = "Sleep" /\ UNCHANGED ret
  /\ UNCHANGED <<artvars, op, arg, info, newBuild, binfo, building, sid, sinfo, polls, lastFetch,
                 postResp>>

\* time.Sleep(1000 * time.Millisecond) and the next pass of the loop
DoBuild_Sleep ==
  /\ op = "DoBuild" /\ pc = "Sleep"
  /\ polls < MaxPolls
  /\ pc' = "Poll"
  /\ UNCHANGED <<artvars, op, arg, locals, sid, sinfo, ret, reqs, logs, history>>

\* ----------------------------------------------------------- GetBuildInfo
\* the ids GetBuildInfo is called with: -1 is "latest", -2 "latest stable"
BuildIDs == -2 .. MaxBuild

\* GetBuildInfo(name, id) is called
GetBuildInfo_Call ==
  /\ pc = "idle"
  /\ \E id \in BuildIDs : arg' = [wait |-> FALSE, paramsOK |-> TRUE, id |-> id, key |-> ""]
  /\ op' = "GetBuildInfo"
  /\ pc' = "Sanitize"
  /\ UNCHANGED <<artvars, locals, sid, sinfo, ret, reqs, logs, history>>

\* id, err := sanitizeID(name, id)
GetBuildInfo_Sanitize ==
  /\ op = "GetBuildInfo" /\ pc = "Sanitize"
  /\ \E r \in SanitizeResponses(arg.id) :
       LET gi == GetInfo(r)
           s == sanitizeID(arg.id, gi) IN
         /\ reqs' = IF sanitizeFetches(arg.id) THEN Append(reqs, ApiURL(0)) ELSE reqs
         /\ sinfo' = IF sanitizeFetches(arg.id) THEN gi ELSE sinfo
         /\ sid' = s
         /\ IF s.panic THEN Panic
            ELSE IF s.err # NoErr THEN Return(Nil, s.err)
            ELSE pc' = "Get" /\ UNCHANGED ret
  /\ UNCHANGED <<artvars, op, arg, locals, logs, history>>

\* json, err := get(name, id) and the decoding of the document
GetBuildInfo_Get ==
  /\ op = "GetBuildInfo" /\ pc = "Get"
  /\ \E r \in Responses(getURL(sid.id)) :
       LET res == decodeBuild(r) IN
         /\ reqs' = Append(reqs, getURL(sid.id))
         /\ IF res.panic THEN Panic ELSE Return(res.val, res.err)
  /\ UNCHANGED <<artvars, op, arg, locals, sid, sinfo, logs, history>>

\* ----------------------------------------------------------- GetArtifacts
\* GetArtifacts(name, id, output) is called
GetArtifacts_Call ==
  /\ pc = "idle"
  /\ \E id \in BuildIDs : arg' = [wait |-> FALSE, paramsOK |-> TRUE, id |-> id, key |-> ""]
  /\ op' = "GetArtifacts"
  /\ pc' = "Sanitize"
  /\ logs' = Append(logs, "Fetching")
  /\ UNCHANGED <<artvars, locals, sid, sinfo, ret, reqs, history>>

\* id, err := sanitizeID(name, id)
GetArtifacts_Sanitize ==
  /\ op = "GetArtifacts" /\ pc = "Sanitize"
  /\ \E r \in SanitizeResponses(arg.id) :
       LET gi == GetInfo(r)
           s == sanitizeID(arg.id, gi) IN
         /\ reqs' = IF sanitizeFetches(arg.id) THEN Append(reqs, ApiURL(0)) ELSE reqs
         /\ sinfo' = IF sanitizeFetches(arg.id) THEN gi ELSE sinfo
         /\ sid' = s
         /\ IF s.panic THEN Panic
            ELSE IF s.err # NoErr THEN Return(Nil, s.err)
            ELSE pc' = "Info" /\ UNCHANGED ret
  /\ UNCHANGED <<artvars, op, arg, locals, logs, history>>

\* info, err := GetBuildInfo(name, id), the test of info.Result and
\* artifacts := []string{}
GetArtifacts_Info ==
  /\ op = "GetArtifacts" /\ pc = "Info"
  /\ \E r1 \in SanitizeResponses(sid.id) : \E r2 \in GetResponses(sid.id, r1) :
       LET res == GetBuildInfo(sid.id, r1, r2) IN
         /\ reqs' = reqs \o buildInfoRequests(sid.id, r1)
         /\ ainfo' = res.val
         /\ CASE artifactInfoBranch(res) = "panic" -> Panic /\ UNCHANGED <<todo, logs>>
              [] artifactInfoBranch(res) = "error" ->
                   Return(Nil, res.err) /\ UNCHANGED <<todo, logs>>
              [] artifactInfoBranch(res) = "failed" ->
                   Return(Nil, ErrFailed) /\ UNCHANGED <<todo, logs>>
              [] artifactInfoBranch(res) = "ok" ->
                   /\ todo' = DOMAIN res.val[1].Artifacts
                   /\ logs' = Append(logs, "Fetching artifacts for build")
                   /\ pc' = "Loop" /\ UNCHANGED ret
  /\ artifacts' = <<>>
  /\ UNCHANGED <<op, arg, locals, sid, sinfo, history, dirs, files, afail>>

\* one pass of the loop over info.Artifacts, for a key the loop has not
\* visited yet (the order of a range over a map is not fixed)
GetArtifacts_Fetch ==
  /\ op = "GetArtifacts" /\ pc = "Loop" /\ todo # {}
  /\ \E outpath \in todo : \E r \in ArtifactResponses : \E mk \in BOOLEAN, cr \in BOOLEAN :
       LET f == fetchArtifact(r, mk, cr) IN
         /\ reqs' = Append(reqs, ArtifactURL(sid.id, ainfo[1].Artifacts[outpath]))
         /\ dirs' = IF f.mkdir THEN dirs \cup {Dir(outpath)} ELSE dirs
         /\ files' = IF f.create THEN files \cup {outpath} ELSE files
         /\ afail' = (afail \/ f.err # NoErr)
         /\ todo' = todo \ {outpath}
         /\ IF loopBranch(f.err) = "return"
            THEN /\ Return(artifacts, f.err)
                 /\ UNCHANGED <<artifacts, logs>>
            ELSE /\ artifacts' = IF f.create THEN appendArtifact(artifacts, outpath)
                                 ELSE artifacts
                 /\ logs' = IF f.create THEN Append(logs, "-> " \o outpath) ELSE logs
                 /\ UNCHANGED <<pc, ret>>
  /\ UNCHANGED <<op, arg, locals, sid, sinfo, history, ainfo>>

\* return artifacts, nil after the loop
GetArtifacts_Return ==
  /\ op = "GetArtifacts" /\ pc = "Loop" /\ todo = {}
  /\ Return(artifacts, NoErr)
  /\ UNCHANGED <<artvars, op, arg, locals, sid, sinfo, reqs, logs, history>>

\* ------------------------------------------------------ GetArtifactReader
\* the artifact keys GetArtifactReader is called with
ArtifactKeys == {"out.bin", "no-such-artifact"}

\* GetArtifactReader(name, id, artifact) is called
GetArtifactReader_Call ==
  /\ pc = "idle"
  /\ \E id \in BuildIDs, k \in ArtifactKeys :
        arg' = [wait |-> FALSE, paramsOK |-> TRUE, id |-> id, key |-> k]
  /\ op' = "GetArtifactReader"
  /\ pc' = "Info"
  /\ UNCHANGED <<artvars, locals, sid, sinfo, ret, reqs, logs, history>>

\* info, err := GetBuildInfo(name, id) and the test of info.Result
GetArtifactReader_Info ==
  /\ op = "GetArtifactReader" /\ pc = "Info"
  /\ \E r1 \in SanitizeResponses(arg.id) : \E r2 \in GetResponses(arg.id, r1) :
       LET res == GetBuildInfo(arg.id, r1, r2) IN
         /\ reqs' = reqs \o buildInfoRequests(arg.id, r1)
         /\ sid' = sanitizeID(arg.id, GetInfo(r1))
         /\ sinfo' = IF sanitizeFetches(arg.id) THEN GetInfo(r1) ELSE sinfo
         /\ ainfo' = res.val
         /\ CASE artifactInfoBranch(res) = "panic" -> Panic
              [] artifactInfoBranch(res) = "error" -> Return(Nil, res.err)
              [] artifactInfoBranch(res) = "failed" -> Return(Nil, ErrFailed)
              [] artifactInfoBranch(res) = "ok" -> pc' = "Open" /\ UNCHANGED ret
  /\ UNCHANGED <<op, arg, locals, logs, history, artifacts, todo, dirs, files, afail>>

\* return getRemote(url) for the artifact URL
GetArtifactReader_Open ==
  /\ op = "GetArtifactReader" /\ pc = "Open"
  /\ \E r \in ArtifactResponses :
       /\ reqs' = Append(reqs, ArtifactURL(readerBuildID(arg.id, sid.id),
                                           lookup(ainfo[1].Artifacts, arg.key)))
       /\ Return(IF getRemote(r).err = NoErr THEN Ptr(getRemote(r).body) ELSE Nil,
                 getRemote(r).err)
  /\ UNCHANGED <<artvars, op, arg, locals, sid, sinfo, logs, history>>

Next ==
  \/ DoBuild_Call
  \/ DoBuild_GetInfo
  \/ DoBuild_Post
  \/ DoBuild_Stable
  \/ DoBuild_Poll
  \/ DoBuild_PollInfo
  \/ DoBuild_Sleep
  \/ GetBuildInfo_Call
  \/ GetBuildInfo_Sanitize
  \/ GetBuildInfo_Get
  \/ GetArtifacts_Call
  \/ GetArtifacts_Sanitize
  \/ GetArtifacts_Info
  \/ GetArtifacts_Fetch
  \/ GetArtifacts_Return
  \/ GetArtifactReader_Call
  \/ GetArtifactReader_Info
  \/ GetArtifactReader_Open

Spec == Init /\ [][Next]_vars

TypeOK ==
  /\ op \in {"none", "DoBuild", "GetBuildInfo", "GetArtifacts", "GetArtifactReader"}
  /\ pc \in {"idle", "GetInfo", "Post", "Stable", "Poll", "PollInfo", "Sleep",
             "Sanitize", "Get", "Info", "Loop", "Open", "done", "panic"}
  /\ polls \in 0..MaxPolls
  /\ consec \in 0..MaxPolls
  /\ Len(obs) <= polls

\* ---------------------------------------------------------------- claims
Last(s) == s[Len(s)]
\* the trigger POSTs sent so far
Posts == Cardinality({ k \in 1..Len(reqs) : reqs[k] = TriggerURL })
\* the wait loop has fetched the predicted build and found it finished
Completed ==
  /\ ret.err = NoErr /\ ret.val # Nil
  /\ lastFetch.res.err = NoErr
  /\ ret.val = lastFetch.res.val
  /\ ~ret.val[1].Building
Returned == op = "DoBuild" /\ pc = "done"

\* C1: on the second consecutive inconsistent poll (predicted build not
\* fetchable, and the job not in queue or lastBuild + 1 # predicted id) the
\* wait aborts: DoBuild has returned the "weird state" error.
C1_SecondInconsistentAborts ==
  (op = "DoBuild" /\ consec >= 2) => (pc = "done" /\ ret.err = ErrWeird)

\* C2: a poll that is the first inconsistent one of a run, or a consistent
\* one (job fetched, in queue, numbering as predicted), never ends the
\* wait: DoBuild goes to sleep and polls again.
C2_SingleInconsistentContinues ==
  [][ (op = "DoBuild" /\ pc = "PollInfo" /\ Len(obs') > Len(obs)
       /\ Last(obs') # "E" /\ consec' <= 1)
      => (pc' = "Sleep" /\ ret' = ret) ]_vars

C2_Witness == op = "DoBuild" /\ pc = "Poll" /\ consec = 1 /\ obs = <<"N">>

\* C3 (as stated): once the trigger phase of a DoBuild call is over, the
\* call has sent no trigger POST if the job was in queue and exactly one if
\* it was not.
C3_Orig ==
  (op = "DoBuild" /\ info # Nil /\ pc # "Post")
    => Posts = (IF info[1].InQueue THEN 0 ELSE 1)

\* C3 (amended): no trigger POST if the job was in queue or the parameters
\* do not parse as a query string, exactly one otherwise, and never more
\* than one, however long the wait.
C3_TriggerCount ==
  /\ Posts <= 1
  /\ (op = "DoBuild" /\ info # Nil /\ pc # "Post")
       => Posts = (IF info[1].InQueue \/ ~arg.paramsOK THEN 0 ELSE 1)
  /\ (op = "DoBuild" /\ (info = Nil \/ pc = "Post")) => Posts = 0

C3_Witness ==
  op = "DoBuild" /\ info # Nil /\ polls >= 2 /\ Posts = 1 /\ pc = "Sleep"

\* C4 (as stated): a successful DoBuild call returns the predicted build id
\* lastBuild + 1.
C4_Orig ==
  (Returned /\ ret.err = NoErr)
    => (ret.val # Nil /\ ret.val[1].ID = info[1].LastBuild + 1)

\* C4 (amended): a successful call without wait returns nothing (a nil
\* BuildInfo); the predicted id lastBuild + 1 is only the id of the build
\* the wait fetches, and a successful call with wait returns the BuildInfo
\* fetched for that id.
C4_ReturnValue ==
  (Returned /\ ret.err = NoErr)
    => IF arg.wait
       THEN /\ ret.val # Nil
            /\ lastFetch.id = info[1].LastBuild + 1
            /\ ret.val = lastFetch.res.val
            /\ Last(reqs) = ApiURL(info[1].LastBuild + 1)
       ELSE ret.val = Nil /\ polls = 0

C4_Witness ==
  Returned /\ ret.err = NoErr /\ ~arg.wait /\ Posts = 1 /\ info[1].LastBuild = 1

\* C5: DoBuild with wait returns a BuildInfo without error only on a poll
\* whose fetch of the predicted build lastBuild + 1 succeeded with building
\* false, and returns the record of that fetch; a poll that fetches the
\* build with building true does not return.
C5_OnlyCompletedReturns ==
  [][ /\ (op = "DoBuild" /\ arg.wait /\ pc # "done" /\ pc' = "done" /\ ret'.err = NoErr)
         => /\ pc = "Poll"
            /\ polls' = polls + 1
            /\ lastFetch'.id = info[1].LastBuild + 1
            /\ Last(reqs') = ApiURL(info[1].LastBuild + 1)
            /\ lastFetch'.res.err = NoErr
            /\ lastFetch'.res.val # Nil
            /\ ~lastFetch'.res.val[1].Building
            /\ ret'.val = lastFetch'.res.val
      /\ (op = "DoBuild" /\ pc = "Poll" /\ lastFetch'.res.val # Nil
          /\ lastFetch'.res.val[1].Building)
         => (pc' = "Sleep" /\ ret' = ret) ]_vars

C5_Witness ==
  Returned /\ arg.wait /\ obs = <<"B", "C">> /\ Completed
  /\ ret.val[1].Result = "SUCCESS"

\* C6 (as stated): once polling has started DoBuild returns only as
\* COMPLETED or with the "weird state" error.
C6_Orig ==
  (Returned /\ polls >= 1) => (Completed \/ ret.err = ErrWeird)

\* C6 (amended): once polling has started DoBuild returns only as
\* COMPLETED, with the "weird state" error, or with the error of a failed
\* job fetch made after the predicted build could not be fetched; a failed
\* build fetch alone does not make it return.
C6_WaitExits ==
  (Returned /\ polls >= 1)
    => \/ Completed
       \/ ret.err = ErrWeird /\ ret.val = Nil
       \/ /\ ret.err \in {ErrNet, ErrStatus, ErrJSON}
          /\ ret.val = Nil
          /\ lastFetch.res.err # NoErr
          /\ Last(reqs) = ApiURL(0)
          /\ Last(obs) = "E"

C6_Witness ==
  Returned /\ polls >= 2 /\ ret.err = ErrStatus /\ Last(obs) = "E"

\* the observations of a wait follow the progression: not in queue (at most
\* once, first), in queue, building, completed
Rank(l) == CASE l = "N" -> 0 [] l = "Q" -> 1 [] l = "B" -> 2 [] l = "C" -> 3
             [] OTHER -> 4
Saw(l) == \E k \in 1..Len(obs) : obs[k] = l
InProgression ==
  /\ obs # <<>>
  /\ \A k \in 1..Len(obs) : Rank(obs[k]) <= 3 /\ (obs[k] = "N" => k = 1)
  /\ \A k \in 1..(Len(obs) - 1) : Rank(obs[k]) <= Rank(obs[k + 1])
LogAt(m) == CHOOSE k \in 1..Len(logs) : logs[k] = m

\* C7: when the polls observe the progression, the wait does not abort or
\* fail, records QUEUED when the job is seen in queue and BUILDING when the
\* build is seen building, QUEUED first, and returns exactly when the build
\* is seen finished, with the BuildInfo of that fetch.
C7_Progression ==
  (op = "DoBuild" /\ InProgression) =>
    /\ ret.err = NoErr
    /\ inQueue = Saw("Q")
    /\ building = Saw("B")
    /\ (Saw("Q") /\ Saw("B")) => LogAt("Job is in queue.") < LogAt("Job is building.")
    /\ (pc = "done") = Saw("C")
    /\ Saw("C") => Completed

C7_Witness ==
  Returned /\ obs = <<"N", "Q", "B", "C">> /\ Completed

\* C8: with wait, the last stable build is fetched before the first poll,
\* and when that fetch fails DoBuild returns ErrStable without polling.
C8_StableFirst ==
  (op = "DoBuild" /\ arg.wait) =>
    /\ (polls = 0 /\ lastFetch.res.err # NoErr)
         => (pc = "done" /\ ret = [val |-> Nil, err |-> ErrStable])
    /\ ret.err = ErrStable => polls = 0
    /\ (polls >= 1 \/ pc \in {"Poll", "PollInfo", "Sleep"})
         => /\ Len(reqs) >= Posts + 2
            /\ reqs[Posts + 2] = getURL(info[1].LastStableBuild)

C8_Witness ==
  Returned /\ arg.wait /\ ret.err = ErrStable /\ Posts = 1
  /\ lastFetch.id = 1 /\ lastFetch.res.err = ErrStatus

\* C9: for a positive id sanitizeID returns the id unchanged, without
\* error, and no request has been sent when it returns.
C9_PositiveUnchanged ==
  (op = "GetBuildInfo" /\ arg.id > 0 /\ pc # "Sanitize") =>
    /\ sid = [id |-> arg.id, err |-> NoErr, panic |-> FALSE]
    /\ pc = "Get" => reqs = <<>>
    /\ \A k \in 1..Len(reqs) : reqs[k] = ApiURL(arg.id)

C9_Witness ==
  op = "GetBuildInfo" /\ arg.id = 2 /\ pc = "Get" /\ sid.id = 2

\* C10: "latest" resolves to the fetched lastBuild, "latest stable" to the
\* fetched lastStableBuild; when that number is 0 the resolution fails with
\* ErrNoBuild, ErrNoStable; a success is a build number >= 1.
C10_LatestResolution ==
  (op = "GetBuildInfo" /\ arg.id \in {-1, -2} /\ pc # "Sanitize") =>
    /\ (sinfo.err = NoErr /\ sinfo.val # Nil) =>
         LET n == IF arg.id = -1 THEN sinfo.val[1].LastBuild
                  ELSE sinfo.val[1].LastStableBuild
             e == IF arg.id = -1 THEN ErrNoBuild ELSE ErrNoStable
         IN IF n = 0
            THEN /\ sid.err = e
                 /\ pc = "done" /\ ret = [val |-> Nil, err |-> e]
                 /\ reqs = <<ApiURL(0)>>
            ELSE sid = [id |-> n, err |-> NoErr, panic |-> FALSE]
    /\ (sid.err = NoErr /\ ~sid.panic) => sid.id >= 1
    /\ pc = "Get" => reqs = <<ApiURL(0)>>

C10_Witness ==
  op = "GetBuildInfo" /\ arg.id = -2 /\ pc = "Get" /\ sid.id = 1
  /\ sinfo.val[1].LastBuild = 2

\* the positions in reqs of the requests for artifact bytes
ArtifactReqs == { k \in 1..Len(reqs) : reqs[k].kind = "artifact" }
ArtifactOp == op \in {"GetArtifacts", "GetArtifactReader"}

\* C11: GetArtifacts and GetArtifactReader refuse a build whose result is
\* not SUCCESS (FAILURE, the BUILDING sentinel, anything else) with
\* ErrFailed, having requested no artifact bytes and created no directory
\* or file; bytes are requested and files created only for a SUCCESS build.
C11_RequiresSuccess ==
  ArtifactOp =>
    /\ (ainfo # Nil /\ ainfo[1].Result # "SUCCESS")
         => /\ pc = "done" /\ ret = [val |-> Nil, err |-> ErrFailed]
            /\ ArtifactReqs = {} /\ dirs = {} /\ files = {}
    /\ (ArtifactReqs # {} \/ dirs # {} \/ files # {})
         => (ainfo # Nil /\ ainfo[1].Result = "SUCCESS")

C11_Witness ==
  /\ op = "GetArtifactReader" /\ pc = "done" /\ ret.err = ErrFailed
  /\ ainfo # Nil /\ ainfo[1].Result = "BUILDING" /\ arg.id = -1

\* C12: the list GetArtifacts returns holds exactly the output paths of the
\* artifacts it has written, on success and on a failure part of the way.
C12_ListIsWritten ==
  (op = "GetArtifacts" /\ pc = "done" /\ ainfo # Nil /\ ainfo[1].Result = "SUCCESS")
    => /\ { ret.val[k] : k \in 1..Len(ret.val) } = files
       /\ Len(ret.val) = Cardinality(files)

\* C13: the request for the bytes that GetArtifactReader sends addresses
\* the build number the id was resolved to, as the fetch of the BuildInfo
\* does, never the sentinel -1 or -2.
C13_ReaderUsesResolvedID ==
  (op = "GetArtifactReader" /\ ArtifactReqs # {})
    => /\ Last(reqs).id = sid.id
       /\ Last(reqs).id >= 1
       /\ reqs[Len(reqs) - 1] = ApiURL(sid.id)

\* C14: decoding a build document does not crash GetBuildInfo: called with
\* a literal build number (so that only the build document is read) it
\* returns; it does not panic.
C14_DecodeNeverCrashes ==
  (op = "GetBuildInfo" /\ arg.id > 0) => pc # "panic"

\* C15: when the trigger POST fails at the network level or is answered
\* with a status that is not 2xx, DoBuild has returned an error and has
\* not gone on as if the build were scheduled.
C15_TriggerFailureSurfaced ==
  (op = "DoBuild" /\ postResp # NoResp
   /\ (postResp.k = "neterr" \/ postResp.code \notin 200..299))
    => /\ pc = "done" /\ ret.err # NoErr /\ ret.val = Nil
       /\ \A k \in 1..Len(logs) : logs[k] # "Build scheduled."

\* DoBuild has returned a BuildInfo from the wait
WaitReturned ==
  Returned /\ arg.wait /\ polls >= 1 /\ ret.err = NoErr /\ ret.val # Nil

\* C16 (as stated): a BuildInfo the wait returns never has the BUILDING
\* sentinel as its result.
C16_Orig ==
  WaitReturned => ret.val[1].Result # "BUILDING"

\* C16 (amended): a BuildInfo the wait returns has building false; its
\* result is the result string of the fetched document when the document
\* has one, and the BUILDING sentinel when the document's result is null:
\* the wait does not look at the result.
C16_ResultOfDocument ==
  WaitReturned =>
    LET r == Index(asMap(lastFetch.body), "result") IN
      /\ ~ret.val[1].Building
      /\ ret.val[1].Result = (IF r = JNull THEN "BUILDING" ELSE asString(r))

C16_Witness ==
  WaitReturned /\ ret.val[1].Result = "BUILDING" /\ ~ret.val[1].Building
  /\ obs = <<"B", "C">>

\* C17: in GetArtifacts the first failure of a request for the bytes, of
\* the directory creation or of the file creation ends the call with that
\* error: afterwards nothing more is requested or created; what was
\* created before stays.
C17_FirstFailureAborts ==
  [][ op = "GetArtifacts" =>
        /\ afail => (reqs' = reqs /\ dirs' = dirs /\ files' = files)
        /\ (afail' /\ ~afail) => (pc' = "done" /\ ret'.err # NoErr)
        /\ files \subseteq files' /\ dirs \subseteq dirs' ]_vars

C17_Witness ==
  /\ op = "GetArtifacts" /\ pc = "done" /\ afail /\ ret.err = ErrCreate
  /\ Cardinality(files) = 1 /\ Cardinality(ArtifactReqs) = 2

\* C18: the requests of a DoBuild call are, in order: the job fetch, the
\* trigger POST if there is one, the fetch of the last stable build, then
\* the polls (the build fetch, and the job fetch only after a build fetch).
\* Without a fetched JobInfo no POST is sent, and none after position 2.
C18_RequestOrder ==
  op = "DoBuild" =>
    /\ reqs # <<>> => reqs[1] = ApiURL(0)
    /\ \A k \in 1..Len(reqs) : reqs[k] = TriggerURL => (k = 2 /\ info # Nil)
    /\ Len(reqs) >= Posts + 2 =>
         /\ info # Nil /\ arg.wait
         /\ reqs[Posts + 2] = getURL(info[1].LastStableBuild)
         /\ \A k \in (Posts + 3)..Len(reqs) :
              \/ reqs[k] = ApiURL(newBuild)
              \/ reqs[k] = ApiURL(0) /\ k > Posts + 3 /\ reqs[k - 1] = ApiURL(newBuild)
    /\ polls >= 1 => Len(reqs) >= Posts + 3

C18_Witness ==
  Returned /\ Posts = 1 /\ polls = 2 /\ ret.err = ErrNet /\ Len(reqs) = 7

\* C19: a BuildInfo that GetBuildInfo returns was decoded from the build
\* document of a build number >= 1, and the wait of DoBuild starts only
\* after the document of a stable build >= 1 was fetched.
C19_BuildDocumentOnly ==
  /\ (op = "GetBuildInfo" /\ pc = "done" /\ ret.val # Nil)
       => (sid.id >= 1 /\ Last(reqs) = ApiURL(sid.id))
  /\ (op = "DoBuild" /\ pc = "Poll" /\ polls = 0)
       => (lastFetch.id >= 1 /\ Last(reqs) = ApiURL(lastFetch.id))

====
